---- MODULE Spec2Model ----
(***************************************************************************)
(* The resumable, rate-limited batch runner of                             *)
(* scripts/adapt/adapt_vignettes_batch.py: process_batch,                  *)
(* adapt_single_vignette, load_batch_progress and save_batch_progress.     *)
(*                                                                         *)
(* One operating-system process at a time runs process_batch for one       *)
(* batch.  The files (progress, output, log) survive the process; the      *)
(* in-memory state (completed, adaptations, failed, the loop position and  *)
(* the retry state) does not.  A process can be terminated at any step.    *)
(*                                                                         *)
(* The other commands of main (--status, --merge) and extract_json are     *)
(* single steps: Spec runs --batch and --status, MergeSpec runs --merge    *)
(* on the batch outputs process_batch can leave, FenceSpec applies         *)
(* extract_json to response texts, ResultSpec builds the result of a       *)
(* parsed response, TranslateSpec runs translate_vignette of               *)
(* scripts/translate/translate_pilot_to_bangla.py.                         *)
(***************************************************************************)
EXTENDS Integers, Sequences, FiniteSets, TLC

\* ------------------------------------------------------------------ bounds
NumItems == 2
NumVariants == 2
MaxRuns == 3

\* The longest batch output given to the merge.
MaxBatchLen == 2

\* The longest response text given to extract_json.
MaxPayloadLen == 5

\* ------------------------------------------------------- program constants
MAX_RETRIES == 5
INITIAL_RETRY_DELAY == 60
MAX_RETRY_DELAY == 300
DELAY_BETWEEN_REQUESTS == 8
WAIT_UNAVAILABLE == 30
WAIT_HTTP_ERROR == 30
WAIT_JSON_ERROR == 10
WAIT_OTHER_ERROR == 15

\* len(BATCH_CONFIG)
NumBatches == 3

\* MAX_RETRIES and RETRY_DELAY of translate_pilot_to_bangla.py
TRANSLATE_MAX_RETRIES == 3
RETRY_DELAY == 10

\* ----------------------------------------------------------------- helpers
Range(s) == {s[i] : i \in DOMAIN s}

Min(a, b) == IF a <= b THEN a ELSE b

IsPrefix(s, t) == Len(s) <= Len(t) /\ SubSeq(t, 1, Len(s)) = s

RECURSIVE Pow2(_)
Pow2(n) == IF n = 0 THEN 1 ELSE 2 * Pow2(n - 1)

\* ------------------------------------------------------------ enumeration
\* total_for_batch = len(batch_vignettes) * len(variants)
NumJobs == NumItems * NumVariants

\* Nested loops the wrong way round: variants outside, vignettes inside.
JobAtVariantMajor(n) == <<((n - 1) % NumItems) + 1, ((n - 1) \div NumItems) + 1>>

\* The n-th job of the nested loops: outer loop over the batch's vignettes in
\* input order, inner loop over DEMOGRAPHIC_TEMPLATES in declaration order.
\* The key f"{vid}_{variant_type}" is modelled as the pair <<item, variant>>
\* (vignette ids are distinct).
JobAt(n) == <<((n - 1) \div NumVariants) + 1, ((n - 1) % NumVariants) + 1>>

JobSeq == [n \in 1..NumJobs |-> JobAt(n)]

AllKeys == Range(JobSeq)

\* list(completed): the keys of a set as a list.  Python leaves the order of
\* a set's elements unspecified; the enumeration order stands for it here and
\* nothing below reads the order of this list.
ListOf(S) == SelectSeq(JobSeq, LAMBDA k : k \in S)

\* --------------------------------------------------------------- responses
RequiredFields == {"vignette_id", "question", "options", "answer"}

Metadata == {"category", "model", "timestamp"}

\* What one call of call_gemini_api can produce: an HTTP error (code), no
\* usable response (code 0: URLError, timeout, "Unexpected response", or a
\* JSON text that is not an object: each ends in "except Exception"), or a
\* text (code 200) that is JSON or not and, when JSON, holds some fields.
Responses ==
    [code : {429, 503, 500, 0}, json : {FALSE}, fields : {{}}]
    \cup [code : {200}, json : {FALSE}, fields : {{}}]
    \cup [code : {200}, json : {TRUE}, fields : SUBSET RequiredFields]

\* A dispatch without the validation of the required fields.
ClassifyUnvalidated(resp) ==
    IF resp.code = 429 THEN "rate_limited"
    ELSE IF resp.code = 503 THEN "unavailable"
    ELSE IF resp.code = 0 THEN "error"
    ELSE IF resp.code # 200 THEN "http_error"
    ELSE IF ~resp.json THEN "json_error"
    ELSE "ok"

\* The except clause (or the normal return) a response ends in.
Classify(resp) ==
    IF resp.code = 429 THEN "rate_limited"
    ELSE IF resp.code = 503 THEN "unavailable"
    ELSE IF resp.code = 0 THEN "error"
    ELSE IF resp.code # 200 THEN "http_error"
    ELSE IF ~resp.json THEN "json_error"
    ELSE IF ~(RequiredFields \subseteq resp.fields) THEN "error"
    ELSE "ok"

\* What a response is, told apart further than the except clauses do: a JSON
\* object without all required fields raises ValueError and ends in "except
\* Exception" like any other error.
Outcome(resp) ==
    IF resp.code = 200 /\ resp.json /\ ~(RequiredFields \subseteq resp.fields)
    THEN "missing_fields"
    ELSE Classify(resp)

\* The result returned for a job: the parsed response plus the metadata.
MakeResult(key, resp) == [job |-> key, fields |-> resp.fields \cup Metadata]

\* ------------------------------------------------------------------- state
VARIABLES
    progressFile,   \* batch_N_progress.json
    outputFile,     \* batch_N_adapted.json
    logFile,        \* batch_N_log.json
    pc,             \* where the process is (or how the last one ended)
    run,            \* how many times process_batch has been started
    completed,      \* process_batch: completed (a set of keys)
    adaptations,    \* process_batch: adaptations (a list of results)
    failed,         \* process_batch: failed (a list of keys)
    jobIdx,         \* position of the nested loops in the enumeration
    attempt,        \* adapt_single_vignette: calls issued so far for the job
    retry_delay,    \* adapt_single_vignette: retry_delay
    \* history of the current run and of the files, read by the properties only
    startProgress,  \* the progress file as it was when the run started
    called,         \* the keys a call was issued for in this run, in first-call order
    successes,      \* jobs for which adapt_single_vignette returned a result, this run
    lastWait,       \* the retry wait that followed the latest failed call of the job
    rateLimited,    \* rate-limited (429) failures of the job so far
    lastOutcome,    \* what the latest call of the job ended in
    sinceCall,      \* total time slept since the latest call of the run
    rateWaits,      \* time.sleep(DELAY_BETWEEN_REQUESTS) calls of this run
    rateWaitTotal,  \* their total duration
    everFailed,     \* some call of some run failed
    everCommitted,  \* keys of every progress file completely written so far
    lastPersisted,  \* the progress file as it was before the latest overwrite
    tornWrite,      \* a process ended while the progress file was being written
    \* the other commands of main
    statusReport,   \* --status: the line printed for the batch
    batchOutputs,   \* --merge: batch_N_adapted.json of every batch
    mergedFile,     \* --merge: pilot_50_adapted_all.json
    mergeLog,       \* --merge: merge_log.json
    mergeReport,    \* --merge: the line printed for each batch
    mergePc,        \* --merge: not started, returned, or ended by an exception
    \* extract_json
    payload,        \* a response text
    extracted,      \* extract_json of the text and of the text inside a fence
    \* the try block of adapt_single_vignette after the call
    response,       \* the JSON object the service returned
    result,         \* what adapt_single_vignette makes of it
    \* translate_vignette of translate_pilot_to_bangla.py
    trPc,           \* about to call the service, returned, or failed
    retry_count,    \* the argument of the running invocation
    trCalls,        \* calls of model.generate_content so far
    trOutcomes,     \* how each call ended
    trWaited        \* seconds slept between the calls

batchVars == <<progressFile, outputFile, logFile, pc, run, completed,
               adaptations, failed, jobIdx, attempt, retry_delay, startProgress,
               called, successes, lastWait, rateLimited, lastOutcome, sinceCall,
               rateWaits, rateWaitTotal, everFailed, everCommitted,
               lastPersisted, tornWrite>>

mergeVars == <<batchOutputs, mergedFile, mergeLog, mergeReport, mergePc>>

fenceVars == <<payload, extracted>>

resultVars == <<response, result>>

translateVars == <<trPc, retry_count, trCalls, trOutcomes, trWaited>>

\* What process_batch never touches.
others == <<statusReport, mergeVars, fenceVars, resultVars, translateVars>>

vars == <<batchVars, others>>

files == <<progressFile, outputFile, logFile>>

jobVars == <<attempt, retry_delay, lastWait, rateLimited, lastOutcome>>

fileHistory == <<everCommitted, lastPersisted, tornWrite>>

\* A file that does not exist, and one opened with 'w' (truncated) whose
\* content has not been completely written: json.load fails on it.
AbsentFile == [state |-> "absent", completed |-> <<>>, adaptations |-> <<>>]

PartialFile == [state |-> "partial", completed |-> <<>>, adaptations |-> <<>>]

NoLog == [state |-> "absent", run |-> 0, total |-> 0, failed |-> <<>>]

SavePcs == {"save_open_progress", "save_dump_progress",
            "save_open_output", "save_dump_output"}

Running == {"loop", "attempt", "committed", "job_failed"} \cup SavePcs

Stopped == {"idle", "done", "aborted", "killed"}

CurKey == JobSeq[jobIdx]

\* ------------------------------------------------- the code's computations
\* A load that ignores the file and starts fresh.
LoadProgressFresh(file) == [completed |-> <<>>, adaptations |-> <<>>]

\* load_batch_progress: the file's content if the file exists, else empty.
LoadProgress(file) ==
    IF file.state = "absent"
    THEN [completed |-> <<>>, adaptations |-> <<>>]
    ELSE [completed |-> file.completed, adaptations |-> file.adaptations]

\* remaining = total_for_batch - len(completed)
Remaining(done) == NumJobs - Cardinality(done)

\* A loop that never skips.
NeverCompleted(key, done) == FALSE

\* if key in completed: continue
AlreadyCompleted(key, done) == key \in done

\* A loop that runs once more: range(MAX_RETRIES + 1).
MoreAttemptsOffByOne(a) == a <= MAX_RETRIES

\* for attempt in range(MAX_RETRIES)
MoreAttempts(a) == a < MAX_RETRIES

\* if attempt == MAX_RETRIES - 1: return None
LastAttempt(a) == a = MAX_RETRIES - 1

\* A backoff without the cap.
BackoffWaitUncapped(d) == d

\* wait_time = min(retry_delay, MAX_RETRY_DELAY)
BackoffWait(d) == Min(d, MAX_RETRY_DELAY)

\* retry_delay *= 2
NextRetryDelay(d) == d * 2

\* A backoff that every failure grows.
RetryDelayAfterAnyFailure(class, d) == NextRetryDelay(d)

\* retry_delay after a failed call: only the 429 clause assigns it.
RetryDelayAfter(class, d) ==
    IF class = "rate_limited" THEN NextRetryDelay(d) ELSE d

\* Retry waits in which a JSON error waits like any other error.
RetryWaitJsonAsOther(class, a, d) ==
    CASE class = "rate_limited" -> BackoffWait(d)
      [] class = "unavailable" -> WAIT_UNAVAILABLE
      [] class = "http_error" -> IF LastAttempt(a) THEN 0 ELSE WAIT_HTTP_ERROR
      [] OTHER -> IF LastAttempt(a) THEN 0 ELSE WAIT_OTHER_ERROR

\* The time.sleep of the except clause a failed call ends in; the clauses
\* other than 429 and 503 return None without sleeping on the last attempt.
RetryWait(class, a, d) ==
    CASE class = "rate_limited" -> BackoffWait(d)
      [] class = "unavailable" -> WAIT_UNAVAILABLE
      [] class = "http_error" -> IF LastAttempt(a) THEN 0 ELSE WAIT_HTTP_ERROR
      [] class = "json_error" -> IF LastAttempt(a) THEN 0 ELSE WAIT_JSON_ERROR
      [] OTHER -> IF LastAttempt(a) THEN 0 ELSE WAIT_OTHER_ERROR

\* A failure that is printed and not recorded.
RecordFailedDropped(fs, key) == fs

\* A result put in front of the list.
InsertResultFirst(ads, res) == <<res>> \o ads

\* adaptations.append(result)
AppendResult(ads, res) == Append(ads, res)

\* A success whose key is not added to the set.
MarkCompletedForgotten(done, key) == done

\* completed.add(key)
MarkCompleted(done, key) == done \cup {key}

\* failed.append(key)
RecordFailed(fs, key) == Append(fs, key)

\* A progress file that holds the latest result only (a patch, not the state).
ProgressContentLatestOnly(done, ads) ==
    [state |-> "ok", completed |-> ListOf(done),
     adaptations |-> SubSeq(ads, Len(ads), Len(ads))]

\* A progress file that counts the failed keys as done.
ProgressContentWithFailed(done, ads) ==
    [state |-> "ok", completed |-> ListOf(done \cup Range(failed)),
     adaptations |-> ads]

\* The progress file save_batch_progress dumps.
ProgressContent(done, ads) ==
    [state |-> "ok", completed |-> ListOf(done), adaptations |-> ads]

\* An output file written from the list as it was before the append.
OutputContentStale(ads) ==
    [state |-> "ok", completed |-> <<>>,
     adaptations |-> SubSeq(ads, 1, Len(ads) - 1)]

\* The batch output file save_batch_progress dumps: the result list alone.
OutputContent(ads) == [state |-> "ok", completed |-> <<>>, adaptations |-> ads]

\* A delay that is taken after a success only.
RateLimitDelayOnSuccess(jobOk) == IF jobOk THEN DELAY_BETWEEN_REQUESTS ELSE 0

\* A failure that is saved like a success.
AfterJobFailureSaved == "save_open_progress"

\* Where a job that returned None leads: the else branch, which appends
\* the key to failed and goes on to the sleep without saving.
AfterJobFailure == "job_failed"

\* An exception of the save caught like a failure of the job.
AfterSaveExceptionAbsorbed == "job_failed"

\* Where an exception raised inside save_batch_progress leads: process_batch
\* calls it outside any try, and main does not catch either.
AfterSaveException == "aborted"

\* A log whose total is the number of results of this run alone.
LogContentRunTotal(r, ads, fs) ==
    [state |-> "ok", run |-> r,
     total |-> Len(ads) - Len(startProgress.adaptations), failed |-> fs]

\* A log that counts the failures and does not list them.
LogContentWithoutKeys(r, ads, fs) ==
    [state |-> "ok", run |-> r, total |-> Len(ads), failed |-> <<>>]

\* The log process_batch dumps after the loops: total and failed of the run
\* (the run number stands for the completed_at timestamp).
LogContent(r, ads, fs) ==
    [state |-> "ok", run |-> r, total |-> Len(ads), failed |-> fs]

\* time.sleep(DELAY_BETWEEN_REQUESTS) at the end of the loop body
RateLimitDelay(jobOk) == DELAY_BETWEEN_REQUESTS

\* ------------------------------------------------------------ main --status
NoReport == [kind |-> "none", completed |-> 0, total |-> 0]

\* load_batch_progress raised: the traceback is all that is printed.
ReportError == [kind |-> "error", completed |-> 0, total |-> 0]

\* A status that calls a batch complete as soon as something is completed.
StatusLineEager(progress) ==
    [kind |-> IF Len(progress.completed) > 0 THEN "COMPLETE" ELSE "count",
     completed |-> Len(progress.completed), total |-> NumJobs]

\* status = "COMPLETE" if completed == total else f"{completed}/{total}"
StatusLine(progress) ==
    [kind |-> IF Len(progress.completed) = NumJobs THEN "COMPLETE" ELSE "count",
     completed |-> Len(progress.completed), total |-> NumJobs]

\* ---------------------------------------------------------- merge_all_batches
Batches == 1 .. NumBatches

\* The output file of batch b once n of its jobs are committed; a result
\* carries the batch it belongs to and its position in the file.
BatchResults(b, n) ==
    [i \in 1 .. n |-> [job |-> <<b, i>>, fields |-> RequiredFields \cup Metadata]]

\* What process_batch can leave as the output of a batch: nothing, a list of
\* results, or a file it was writing when the process ended.
BatchOutputFiles(b) ==
    {AbsentFile, PartialFile}
        \cup {OutputContent(BatchResults(b, n)) : n \in 1 .. MaxBatchLen}

\* The for loop of merge_all_batches from batch b on: json.load raising on a
\* file ends the loop and the function.
RECURSIVE MergeLoop(_, _, _, _)
MergeLoop(outs, b, all, lines) ==
    IF b > NumBatches
    THEN [raised |-> FALSE, all |-> all, lines |-> lines]
    ELSE IF outs[b].state = "absent"
    THEN MergeLoop(outs, b + 1, all,
                   Append(lines, [batch |-> b, found |-> FALSE, loaded |-> 0]))
    ELSE IF outs[b].state = "partial"
    THEN [raised |-> TRUE, all |-> all, lines |-> lines]
    ELSE MergeLoop(outs, b + 1, all \o outs[b].adaptations,
                   Append(lines, [batch |-> b, found |-> TRUE,
                                  loaded |-> Len(outs[b].adaptations)]))

NoMergeLog == [state |-> "absent", total |-> 0, batches |-> <<>>, output_file |-> ""]

FinalOutputName == "pilot_50_adapted_all.json"

\* A merge log that says nothing of the batches.
MergeLogContentTotalOnly(all) ==
    [state |-> "ok", total |-> Len(all), batches |-> <<>>,
     output_file |-> FinalOutputName]

\* merge_log.json: the total, the keys of BATCH_CONFIG, the final file (and
\* merged_at, a timestamp).
MergeLogContent(all) ==
    [state |-> "ok", total |-> Len(all), batches |-> [b \in Batches |-> b],
     output_file |-> FinalOutputName]

\* --------------------------------------------------------------- extract_json
\* A text is a sequence of characters: the backquote, the newline, the
\* space, and one character that is none of them.
Backquote == "backquote"

Newline == "\n"

Chars == {Backquote, Newline, " ", "x"}

Whitespace == {Newline, " "}

\* "```"
Fence == <<Backquote, Backquote, Backquote>>

Texts == UNION {[1 .. n -> Chars] : n \in 0 .. MaxPayloadLen}

\* text[i:] and text[:i] of Python, for 0 <= i <= len(text)
From(text, i) == SubSeq(text, i + 1, Len(text))

UpTo(text, i) == SubSeq(text, 1, i)

\* text.startswith(pre)
StartsWith(text, pre) ==
    Len(text) >= Len(pre) /\ UpTo(text, Len(pre)) = pre

\* The indices (from 0) at which sub occurs in text.
Occurrences(text, sub) ==
    {i \in 0 .. Len(text) - Len(sub) : StartsWith(From(text, i), sub)}

\* sub in text
Contains(text, sub) == Occurrences(text, sub) # {}

\* text.strip()
RECURSIVE LStrip(_)
LStrip(text) ==
    IF text # <<>> /\ Head(text) \in Whitespace THEN LStrip(Tail(text)) ELSE text

RECURSIVE RStrip(_)
RStrip(text) ==
    IF text # <<>> /\ text[Len(text)] \in Whitespace
    THEN RStrip(UpTo(text, Len(text) - 1))
    ELSE text

Strip(text) == RStrip(LStrip(text))

\* text.split("\n", 1)[1]
AfterFirstLine(text) ==
    From(text, (CHOOSE i \in Occurrences(text, <<Newline>>) :
                    \A j \in Occurrences(text, <<Newline>>) : i <= j) + 1)

\* A cut at the first fence: text.split("```", 1)[0].
BeforeFirstFence(text) ==
    UpTo(text, CHOOSE i \in Occurrences(text, Fence) :
                   \A j \in Occurrences(text, Fence) : i <= j)

\* text.rsplit("```", 1)[0]
BeforeLastFence(text) ==
    UpTo(text, CHOOSE i \in Occurrences(text, Fence) :
                   \A j \in Occurrences(text, Fence) : i >= j)

extract_json(text) ==
    LET stripped == Strip(text)
        opened == IF Contains(stripped, <<Newline>>)
                  THEN AfterFirstLine(stripped)
                  ELSE From(stripped, 3)
        closed == IF Contains(opened, Fence)
                  THEN BeforeLastFence(opened)
                  ELSE opened
    IN  Strip(IF StartsWith(stripped, Fence) THEN closed ELSE stripped)

\* The fenced blocks around a payload: an opening fence line with or without
\* a language tag, the payload, and a closing fence on the payload's last
\* line or on a line of its own.
Wrappings(text) ==
    {Fence \o tag \o <<Newline>> \o text \o sep \o Fence :
        tag \in {<<>>, <<"x">>}, sep \in {<<>>, <<Newline>>}}

NoExtract == [applied |-> FALSE, plain |-> <<>>, wrapped |-> {}]

\* ------------------------------------- adapt_single_vignette: the result
\* Fields the prompt asks the service for besides the required ones, and a
\* field it does not ask for that the runner sets itself.
ServiceFields == RequiredFields \cup {"variant_type", "original_vignette_id", "model"}

\* What the service wrote in a field: what the prompt asked for, or not.
ServiceValues == {"as_asked", "other"}

\* json.loads(json_text): an object with some of the fields.
Bodies == UNION {[S -> ServiceValues] : S \in SUBSET ServiceFields}

NoResult == [status |-> "none", value |-> <<>>]

\* A result in which the runner sets nothing.
AugmentedNotAtAll(body) == body

\* result['category'], result['model'], result['timestamp'] assigned by the
\* runner; every other field is as the service returned it.
Augmented(body) ==
    [f \in DOMAIN body \cup Metadata |->
        IF f \in Metadata THEN "runner" ELSE body[f]]

\* The try block after json.loads: the ValueError of the validation, or the
\* result returned.
ResultOf(body) ==
    IF RequiredFields \subseteq DOMAIN body
    THEN [status |-> "ok", value |-> Augmented(body)]
    ELSE [status |-> "rejected", value |-> <<>>]

\* --------------------------------------------------------- translate_vignette
\* The exceptions of the try block: generate_content raises, a fenced text
\* has no second line (IndexError), json.loads raises, a required field or
\* an option is missing (ValueError). All end in "except Exception".
TranslateErrors ==
    {"api_error", "no_second_line", "json_error", "missing_field", "missing_option"}

\* A test that lets one more retry through.
MayRetryInclusive(rc) == rc <= TRANSLATE_MAX_RETRIES

\* if retry_count < MAX_RETRIES
MayRetry(rc) == rc < TRANSLATE_MAX_RETRIES

\* -------------------------------------------------------------------- Init
StatusIdle == statusReport = NoReport

MergeIdle ==
    /\ batchOutputs = [b \in Batches |-> AbsentFile]
    /\ mergedFile = AbsentFile
    /\ mergeLog = NoMergeLog
    /\ mergeReport = <<>>
    /\ mergePc = "idle"

FenceIdle == payload = <<>> /\ extracted = NoExtract

BatchInit ==
    /\ progressFile = AbsentFile
    /\ outputFile = AbsentFile
    /\ logFile = NoLog
    /\ pc = "idle"
    /\ run = 0
    /\ completed = {}
    /\ adaptations = <<>>
    /\ failed = <<>>
    /\ jobIdx = 0
    /\ attempt = 0
    /\ retry_delay = INITIAL_RETRY_DELAY
    /\ startProgress = AbsentFile
    /\ called = <<>>
    /\ successes = 0
    /\ lastWait = 0
    /\ rateLimited = 0
    /\ lastOutcome = "none"
    /\ sinceCall = 0
    /\ rateWaits = 0
    /\ rateWaitTotal = 0
    /\ everFailed = FALSE
    /\ everCommitted = {}
    /\ lastPersisted = AbsentFile
    /\ tornWrite = FALSE

ResultIdle == response = <<>> /\ result = NoResult

TranslateIdle ==
    /\ trPc = "idle"
    /\ retry_count = 0
    /\ trCalls = 0
    /\ trOutcomes = <<>>
    /\ trWaited = 0

Init ==
    BatchInit /\ StatusIdle /\ MergeIdle /\ FenceIdle /\ ResultIdle /\ TranslateIdle

\* The in-memory state of a process that is gone (or not yet started).
NoProcess ==
    /\ completed' = {}
    /\ adaptations' = <<>>
    /\ failed' = <<>>
    /\ jobIdx' = 0
    /\ attempt' = 0
    /\ retry_delay' = INITIAL_RETRY_DELAY
    /\ startProgress' = AbsentFile
    /\ called' = <<>>
    /\ successes' = 0
    /\ lastWait' = 0
    /\ rateLimited' = 0
    /\ lastOutcome' = "none"
    /\ sinceCall' = 0
    /\ rateWaits' = 0
    /\ rateWaitTotal' = 0

\* ----------------------------------------------------------------- actions
\* process_batch starts, and json.load raises on the progress file: the
\* exception leaves process_batch.
StartRunUnreadable ==
    /\ pc \in Stopped
    /\ run < MaxRuns
    /\ progressFile.state = "partial"
    /\ run' = run + 1
    /\ pc' = "aborted"
    /\ NoProcess
    /\ statusReport' = NoReport
    /\ UNCHANGED <<files, everFailed, fileHistory, mergeVars, fenceVars,
                   resultVars, translateVars>>

\* process_batch from its start to the first loop iteration: load the
\* progress, return at once when nothing remains.
StartRun ==
    /\ pc \in Stopped
    /\ run < MaxRuns
    /\ progressFile.state # "partial"
    /\ run' = run + 1
    /\ LET p == LoadProgress(progressFile) IN
         /\ startProgress' = progressFile
         /\ completed' = Range(p.completed)
         /\ adaptations' = p.adaptations
         /\ IF Remaining(Range(p.completed)) = 0
            THEN pc' = "done" /\ jobIdx' = 0
            ELSE pc' = "loop" /\ jobIdx' = 1
    /\ failed' = <<>>
    /\ called' = <<>>
    /\ successes' = 0
    /\ rateWaits' = 0
    /\ rateWaitTotal' = 0
    /\ attempt' = 0
    /\ retry_delay' = INITIAL_RETRY_DELAY
    /\ lastWait' = 0
    /\ rateLimited' = 0
    /\ lastOutcome' = "none"
    /\ sinceCall' = 0
    /\ statusReport' = NoReport
    /\ UNCHANGED <<files, everFailed, fileHistory, mergeVars, fenceVars,
                   resultVars, translateVars>>

\* The head of the loop body for a key that is in completed: continue.
SkipCompleted ==
    /\ pc = "loop"
    /\ jobIdx <= NumJobs
    /\ AlreadyCompleted(CurKey, completed)
    /\ jobIdx' = jobIdx + 1
    /\ UNCHANGED <<others, files, sinceCall, pc, run, completed, adaptations, failed, jobVars,
                   startProgress, called, successes, rateWaits, rateWaitTotal,
                   everFailed, fileHistory>>

\* The head of the loop body for a key that is not: adapt_single_vignette is
\* entered and sets retry_delay.
BeginJob ==
    /\ pc = "loop"
    /\ jobIdx <= NumJobs
    /\ ~AlreadyCompleted(CurKey, completed)
    /\ pc' = "attempt"
    /\ attempt' = 0
    /\ retry_delay' = INITIAL_RETRY_DELAY
    /\ lastWait' = 0
    /\ rateLimited' = 0
    /\ lastOutcome' = "none"
    /\ UNCHANGED <<others, files, sinceCall, run, completed, adaptations, failed, jobIdx,
                   startProgress, called, successes, rateWaits, rateWaitTotal,
                   everFailed, fileHistory>>

NoteCall == called' = IF attempt = 0 THEN Append(called, CurKey) ELSE called

\* One call that succeeds: adapt_single_vignette returns the result, and
\* process_batch appends it and adds the key before it saves.
CallSucceeds ==
    /\ pc = "attempt"
    /\ MoreAttempts(attempt)
    /\ \E resp \in Responses :
         /\ Classify(resp) = "ok"
         /\ adaptations' = AppendResult(adaptations, MakeResult(CurKey, resp))
    /\ completed' = MarkCompleted(completed, CurKey)
    /\ attempt' = attempt + 1
    /\ lastOutcome' = "ok"
    /\ sinceCall' = 0
    /\ successes' = successes + 1
    /\ NoteCall
    /\ pc' = "save_open_progress"
    /\ UNCHANGED <<others, files, run, failed, jobIdx, retry_delay, lastWait,
                   rateLimited, startProgress, rateWaits, rateWaitTotal,
                   everFailed, fileHistory>>

\* One call that fails, with the sleep of its except clause; after the last
\* attempt adapt_single_vignette returns None and process_batch records the
\* key as failed.
CallFails ==
    /\ pc = "attempt"
    /\ MoreAttempts(attempt)
    /\ \E resp \in Responses :
         LET class == Classify(resp) IN
           /\ class # "ok"
           /\ lastWait' = RetryWait(class, attempt, retry_delay)
           /\ sinceCall' = RetryWait(class, attempt, retry_delay)
           /\ lastOutcome' = Outcome(resp)
           /\ retry_delay' = RetryDelayAfter(class, retry_delay)
           /\ rateLimited' = IF class = "rate_limited"
                             THEN rateLimited + 1
                             ELSE rateLimited
    /\ attempt' = attempt + 1
    /\ NoteCall
    /\ everFailed' = TRUE
    /\ IF MoreAttempts(attempt + 1)
       THEN pc' = "attempt" /\ failed' = failed
       ELSE pc' = AfterJobFailure /\ failed' = RecordFailed(failed, CurKey)
    /\ UNCHANGED <<others, files, run, completed, adaptations, jobIdx, startProgress,
                   successes, rateWaits, rateWaitTotal, fileHistory>>

\* save_batch_progress: open(paths["progress"], 'w') truncates the file.
SaveOpenProgress ==
    /\ pc = "save_open_progress"
    /\ lastPersisted' = progressFile
    /\ progressFile' = PartialFile
    /\ pc' = "save_dump_progress"
    /\ UNCHANGED <<others, sinceCall, outputFile, logFile, run, completed, adaptations, failed,
                   jobIdx, jobVars, startProgress, called, successes, rateWaits,
                   rateWaitTotal, everFailed, everCommitted, tornWrite>>

\* save_batch_progress: json.dump(progress, f) and the close of the file.
SaveDumpProgress ==
    /\ pc = "save_dump_progress"
    /\ progressFile' = ProgressContent(completed, adaptations)
    /\ everCommitted' = everCommitted \cup completed
    /\ pc' = "save_open_output"
    /\ UNCHANGED <<others, sinceCall, outputFile, logFile, run, completed, adaptations, failed,
                   jobIdx, jobVars, startProgress, called, successes, rateWaits,
                   rateWaitTotal, everFailed, lastPersisted, tornWrite>>

\* save_batch_progress: open(paths["output"], 'w') truncates the file.
SaveOpenOutput ==
    /\ pc = "save_open_output"
    /\ outputFile' = PartialFile
    /\ pc' = "save_dump_output"
    /\ UNCHANGED <<others, sinceCall, progressFile, logFile, run, completed, adaptations, failed,
                   jobIdx, jobVars, startProgress, called, successes, rateWaits,
                   rateWaitTotal, everFailed, fileHistory>>

\* save_batch_progress: json.dump(adaptations, f), the close, the return.
SaveDumpOutput ==
    /\ pc = "save_dump_output"
    /\ outputFile' = OutputContent(adaptations)
    /\ pc' = "committed"
    /\ UNCHANGED <<others, sinceCall, progressFile, logFile, run, completed, adaptations, failed,
                   jobIdx, jobVars, startProgress, called, successes, rateWaits,
                   rateWaitTotal, everFailed, fileHistory>>

\* time.sleep(DELAY_BETWEEN_REQUESTS), then the next iteration.
RateLimitSleep ==
    /\ pc \in {"committed", "job_failed"}
    /\ rateWaits' = rateWaits + 1
    /\ rateWaitTotal' = rateWaitTotal + RateLimitDelay(pc = "committed")
    /\ jobIdx' = jobIdx + 1
    /\ pc' = "loop"
    /\ attempt' = 0
    /\ retry_delay' = INITIAL_RETRY_DELAY
    /\ lastWait' = 0
    /\ rateLimited' = 0
    /\ lastOutcome' = "none"
    /\ sinceCall' = sinceCall + RateLimitDelay(pc = "committed")
    /\ UNCHANGED <<others, files, run, completed, adaptations, failed, startProgress,
                   called, successes, everFailed, fileHistory>>

\* The loops are over: the summary and the run log.
WriteLog ==
    /\ pc = "loop"
    /\ jobIdx > NumJobs
    /\ logFile' = LogContent(run, adaptations, failed)
    /\ pc' = "done"
    /\ UNCHANGED <<others, sinceCall, progressFile, outputFile, run, completed, adaptations,
                   failed, jobIdx, jobVars, startProgress, called, successes,
                   rateWaits, rateWaitTotal, everFailed, fileHistory>>

\* The process is terminated (a signal, a power cut) where it stands.
Kill ==
    /\ pc \in Running
    /\ pc' = "killed"
    /\ tornWrite' = (tornWrite \/ pc = "save_dump_progress")
    /\ NoProcess
    /\ UNCHANGED <<others, files, run, everFailed, everCommitted, lastPersisted>>

\* open or json.dump raises OSError inside save_batch_progress: nothing in
\* process_batch catches it.
PersistenceFailure ==
    /\ pc \in SavePcs
    /\ pc' = AfterSaveException
    /\ tornWrite' = (tornWrite \/ pc = "save_dump_progress")
    /\ NoProcess
    /\ UNCHANGED <<others, files, run, everFailed, everCommitted, lastPersisted>>

\* main with --status, for the batch: one line from load_batch_progress,
\* or the exception json.load raises on the file.
Status ==
    /\ pc \in Stopped
    /\ statusReport = NoReport
    /\ statusReport' = IF progressFile.state = "partial"
                       THEN ReportError
                       ELSE StatusLine(LoadProgress(progressFile))
    /\ UNCHANGED <<batchVars, mergeVars, fenceVars, resultVars, translateVars>>

\* merge_all_batches, whole: the loop, then the final file and the merge log
\* when anything was loaded.
MergeAllBatches ==
    /\ mergePc = "idle"
    /\ LET r == MergeLoop(batchOutputs, 1, <<>>, <<>>) IN
         /\ mergeReport' = r.lines
         /\ mergePc' = IF r.raised THEN "aborted" ELSE "done"
         /\ IF ~r.raised /\ r.all # <<>>
            THEN /\ mergedFile' = OutputContent(r.all)
                 /\ mergeLog' = MergeLogContent(r.all)
            ELSE UNCHANGED <<mergedFile, mergeLog>>
    /\ UNCHANGED <<batchVars, statusReport, batchOutputs, fenceVars,
                   resultVars, translateVars>>

\* extract_json applied to a response text and to the text inside a fence.
ExtractJson ==
    /\ ~extracted.applied
    /\ extracted' = [applied |-> TRUE,
                     plain |-> extract_json(payload),
                     wrapped |-> {extract_json(w) : w \in Wrappings(payload)}]
    /\ UNCHANGED <<batchVars, statusReport, mergeVars, payload, resultVars,
                   translateVars>>

\* adapt_single_vignette from json.loads to the return, on a parsed body.
BuildResult ==
    /\ result = NoResult
    /\ result' = ResultOf(response)
    /\ UNCHANGED <<batchVars, statusReport, mergeVars, fenceVars, response,
                   translateVars>>

\* translate_vignette: the try block ends in "return translation".
TranslateSucceeds ==
    /\ trPc = "call"
    /\ trCalls' = trCalls + 1
    /\ trOutcomes' = Append(trOutcomes, "ok")
    /\ trPc' = "returned"
    /\ UNCHANGED <<batchVars, statusReport, mergeVars, fenceVars, resultVars,
                   retry_count, trWaited>>

\* translate_vignette: the try block raises; the except clause sleeps and
\* calls translate_vignette with retry_count + 1, or returns None.
TranslateFails ==
    /\ trPc = "call"
    /\ trCalls' = trCalls + 1
    /\ \E e \in TranslateErrors : trOutcomes' = Append(trOutcomes, e)
    /\ IF MayRetry(retry_count)
       THEN /\ trWaited' = trWaited + RETRY_DELAY
            /\ retry_count' = retry_count + 1
            /\ trPc' = "call"
       ELSE /\ trPc' = "failed"
            /\ UNCHANGED <<retry_count, trWaited>>
    /\ UNCHANGED <<batchVars, statusReport, mergeVars, fenceVars, resultVars>>

RunStep ==
    \/ SkipCompleted
    \/ BeginJob
    \/ CallSucceeds
    \/ CallFails
    \/ SaveOpenProgress
    \/ SaveDumpProgress
    \/ SaveOpenOutput
    \/ SaveDumpOutput
    \/ RateLimitSleep
    \/ WriteLog

Next ==
    \/ StartRunUnreadable
    \/ StartRun
    \/ RunStep
    \/ Kill
    \/ PersistenceFailure
    \/ Status

Spec == Init /\ [][Next]_vars

\* --merge on every combination of batch outputs process_batch can leave.
MergeInit ==
    /\ BatchInit /\ StatusIdle /\ FenceIdle /\ ResultIdle /\ TranslateIdle
    /\ batchOutputs \in {f \in [Batches -> UNION {BatchOutputFiles(b) : b \in Batches}] :
                            \A b \in Batches : f[b] \in BatchOutputFiles(b)}
    /\ mergedFile = AbsentFile
    /\ mergeLog = NoMergeLog
    /\ mergeReport = <<>>
    /\ mergePc = "idle"

MergeNext == MergeAllBatches

MergeSpec == MergeInit /\ [][MergeNext]_vars

\* extract_json on every response text up to the bound.
FenceInit ==
    /\ BatchInit /\ StatusIdle /\ MergeIdle /\ ResultIdle /\ TranslateIdle
    /\ payload \in Texts
    /\ extracted = NoExtract

FenceNext == ExtractJson

FenceSpec == FenceInit /\ [][FenceNext]_vars

\* The result of every JSON object the service can return.
ResultInit ==
    /\ BatchInit /\ StatusIdle /\ MergeIdle /\ FenceIdle /\ TranslateIdle
    /\ response \in Bodies
    /\ result = NoResult

ResultNext == BuildResult

ResultSpec == ResultInit /\ [][ResultNext]_vars

\* translate_vignette(model, vignette) as main calls it: retry_count = 0.
TranslateInit ==
    /\ BatchInit /\ StatusIdle /\ MergeIdle /\ FenceIdle /\ ResultIdle
    /\ trPc = "call"
    /\ retry_count = 0
    /\ trCalls = 0
    /\ trOutcomes = <<>>
    /\ trWaited = 0

TranslateNext == TranslateSucceeds \/ TranslateFails

TranslateSpec == TranslateInit /\ [][TranslateNext]_vars

\* The call of the service returns or raises, and the sleep ends.
TranslateFairSpec == TranslateSpec /\ WF_vars(TranslateNext)

\* The single thread of a running process always takes its next step (every
\* call returns, every sleep ends); when a process is started or terminated
\* is left open.
FairSpec == Spec /\ WF_vars(RunStep)

\* ================================================================ properties
StartKeys == Range(startProgress.completed)

PersistedKeys == Range(progressFile.completed)

\* The keys of the enumeration that are not in a set, in enumeration order.
NotIn(S) == SelectSeq(JobSeq, LAMBDA k : k \notin S)

\* C1: no call is issued for a key that was in the completed set loaded at
\* the start of the run, nor, over all runs, for a key that some completely
\* written progress file has held.
C1_NoCallForCompleted ==
    [][attempt' = attempt + 1 =>
         /\ CurKey \notin StartKeys
         /\ CurKey \notin everCommitted]_vars

\* A resumed run that skipped the keys it loaded and called the service for
\* the others.
C1_Witness ==
    /\ pc = "done"
    /\ run >= 2
    /\ StartKeys # {}
    /\ called # <<>>
    /\ everCommitted = AllKeys

\* C2: with a service that never fails, a run that returns has issued one
\* call for each key missing from the loaded progress, in enumeration order,
\* and none else, and the progress file then holds every key; started on a
\* complete progress file, it issues no call and leaves the results as they
\* were.
C2_IdempotentResume ==
    (pc = "done" /\ ~everFailed) =>
        /\ called = NotIn(StartKeys)
        /\ successes = Len(called)
        /\ progressFile.state = "ok"
        /\ PersistedKeys = AllKeys
        /\ Len(progressFile.adaptations) = NumJobs
        /\ (StartKeys = AllKeys =>
              /\ called = <<>>
              /\ progressFile.adaptations = startProgress.adaptations)

\* The second run of the scenario: the first committed I1/V1 and I1/V2 and was
\* terminated; this one called I2/V1 then I2/V2.
C2_Witness ==
    /\ pc = "done"
    /\ ~everFailed
    /\ run = 2
    /\ Len(startProgress.adaptations) = 2
    /\ startProgress.adaptations[1].job = <<1, 1>>
    /\ startProgress.adaptations[2].job = <<1, 2>>
    /\ called = <<<<2, 1>>, <<2, 2>>>>
    /\ PersistedKeys = AllKeys

\* C3: as long as no process ended while the progress file was being
\* written, the progress file is readable between commits, a commit extends
\* the results it held (the old list is a prefix of the new one) and keeps
\* every key ever committed, and outside a save the memory of the running
\* process holds exactly what is persisted: terminating it loses the job in
\* flight and nothing else.
C3_CommittedWorkSurvives ==
    ~tornWrite =>
        /\ (pc # "save_dump_progress" => progressFile.state # "partial")
        /\ (progressFile.state = "ok" =>
              /\ IsPrefix(lastPersisted.adaptations, progressFile.adaptations)
              /\ Range(lastPersisted.completed) \subseteq PersistedKeys
              /\ everCommitted \subseteq PersistedKeys)
        /\ (pc \in Running \ SavePcs =>
              /\ adaptations = progressFile.adaptations
              /\ completed = PersistedKeys)

\* A commit of a run that was started after an earlier run was terminated.
C3_Witness ==
    /\ pc = "committed"
    /\ run = 2
    /\ ~everFailed
    /\ ~tornWrite
    /\ Len(startProgress.adaptations) = 1
    /\ Len(lastPersisted.adaptations) = 1
    /\ Len(progressFile.adaptations) = 2

\* C4: a commit replaces the progress file atomically: whenever no process
\* is running, the progress file is the complete previous record or the
\* complete new one, so the next run can load it.
C4_AtomicCommit ==
    pc \in Stopped => progressFile.state # "partial"

\* C5: in every progress file written, the completed keys are as many as the
\* results and no key occurs twice; during and after a run, the completed
\* keys are those loaded plus one for each job that succeeded in the run.
C5_CompletedMatchesResults ==
    /\ (progressFile.state = "ok" =>
          /\ Len(progressFile.completed) = Len(progressFile.adaptations)
          /\ Cardinality(PersistedKeys) = Len(progressFile.completed))
    /\ (pc \in Running \cup {"done"} =>
          Cardinality(completed) = Len(startProgress.completed) + successes)

\* A resumed run that ended with successes and a failure.
C5_Witness ==
    /\ pc = "done"
    /\ Len(startProgress.completed) >= 1
    /\ successes >= 1
    /\ Len(failed) >= 1

\* C6: a job gets at most MAX_RETRIES calls whatever the failures are; when
\* all of them failed the key is in the failed list and in neither the
\* completed set nor the progress file, and the next step of the runner is
\* the rate-limit sleep that leads to the next enumerated job.
C6_BoundedAttempts ==
    /\ [](/\ attempt <= MAX_RETRIES
          /\ (pc = "attempt" => attempt < MAX_RETRIES)
          /\ (pc = "job_failed" =>
                /\ attempt = MAX_RETRIES
                /\ CurKey \in Range(failed)
                /\ CurKey \notin completed
                /\ CurKey \notin PersistedKeys))
    /\ [][(pc = "job_failed" /\ pc' \in Running) =>
            (pc' = "loop" /\ jobIdx' = jobIdx + 1 /\ files' = files)]_vars

\* A job that failed on a mix of classes: some calls rate-limited, the last
\* one ending in a clause that returns without sleeping.
C6_Witness ==
    /\ pc = "job_failed"
    /\ rateLimited \in 1..(MAX_RETRIES - 1)
    /\ lastWait = 0
    /\ jobIdx < NumJobs

\* C7: while every call of a job has failed rate-limited, the wait after the
\* i-th failure is min(INITIAL_RETRY_DELAY * 2^(i-1), MAX_RETRY_DELAY), which
\* is 60, 120, 240, 300, 300; there are at most MAX_RETRIES calls and after
\* the last the job is failed.
C7_BackoffSequence ==
    (pc \in {"attempt", "job_failed"} /\ attempt >= 1 /\ rateLimited = attempt) =>
        /\ attempt <= MAX_RETRIES
        /\ lastWait = Min(INITIAL_RETRY_DELAY * Pow2(attempt - 1), MAX_RETRY_DELAY)
        /\ lastWait = <<60, 120, 240, 300, 300>>[attempt]
        /\ (attempt = MAX_RETRIES <=> pc = "job_failed")
        /\ (pc = "job_failed" => CurKey \in Range(failed))

\* A job whose MAX_RETRIES calls were all rate-limited.
C7_Witness ==
    /\ pc = "job_failed"
    /\ rateLimited = MAX_RETRIES
    /\ lastWait = MAX_RETRY_DELAY

\* C8: a run ends whatever the service answers; a failed call never ends the
\* run; and when the run returns, every enumerated key was loaded as
\* completed, committed in the run, or recorded as failed.
C8_RunTerminates ==
    /\ [](pc = "done" =>
            /\ AllKeys = StartKeys \cup (completed \ StartKeys) \cup Range(failed)
            /\ completed \ StartKeys \subseteq PersistedKeys
            /\ Cardinality(completed \ StartKeys) = successes)
    /\ [][pc = "attempt" => pc' \in {"attempt", "job_failed",
                                     "save_open_progress", "killed"}]_vars
    /\ (pc \in Running ~> pc \in Stopped)

\* A run that returned after skipping, committing and failing.
C8_Witness ==
    /\ pc = "done"
    /\ StartKeys # {}
    /\ successes >= 1
    /\ Len(failed) >= 1

\* C9: the sleep of DELAY_BETWEEN_REQUESTS is taken once after every job that
\* was attempted, succeeded or failed, the last job included, and always for
\* the same duration.
C9_RateLimitAfterEveryJob ==
    /\ rateWaitTotal = DELAY_BETWEEN_REQUESTS * rateWaits
    /\ (pc \in {"loop", "attempt", "done"} =>
          rateWaits = successes + Len(failed))
    /\ (pc \in SavePcs \cup {"committed", "job_failed"} =>
          rateWaits + 1 = successes + Len(failed))

\* A run that returned after a success and a failure, the last enumerated
\* job having been attempted.
C9_Witness ==
    /\ pc = "done"
    /\ successes >= 1
    /\ Len(failed) >= 1
    /\ JobSeq[NumJobs] \in Range(called)
    /\ rateWaits = Len(called)

\* C10: once save_batch_progress has returned in a run, and until the next
\* save begins, the batch output file holds exactly the result list of the
\* progress file.
C10_OutputMatchesProgress ==
    (pc \in (Running \cup {"done"}) \ SavePcs /\ successes > 0) =>
        /\ progressFile.state = "ok"
        /\ outputFile.state = "ok"
        /\ outputFile.adaptations = progressFile.adaptations

\* The return of a save in a resumed run.
C10_Witness ==
    /\ pc = "committed"
    /\ run >= 2
    /\ Len(startProgress.adaptations) >= 1
    /\ Len(outputFile.adaptations) >= 2

\* Enumeration order of two keys: vignettes in input order, and for one
\* vignette the variants in declaration order.
EnumeratedBefore(a, b) == a[1] < b[1] \/ (a[1] = b[1] /\ a[2] < b[2])

\* C11: the keys enumerated are exactly items x variants, NumItems *
\* NumVariants of them; the jobs of a run get their first call in enumeration
\* order, and every call is for the job that was called last, so all calls of
\* a job come before all calls of any later job.
C11_SequentialInOrder ==
    /\ [](/\ AllKeys = (1..NumItems) \X (1..NumVariants)
          /\ Len(JobSeq) = NumItems * NumVariants
          /\ Cardinality(AllKeys) = NumItems * NumVariants
          /\ \A i, j \in DOMAIN called :
                i < j => EnumeratedBefore(called[i], called[j]))
    /\ [][attempt' = attempt + 1 =>
            /\ called' # <<>>
            /\ called'[Len(called')] = CurKey
            /\ (attempt > 0 => called' = called)]_vars

\* A run that called every job, some of them more than once.
C11_Witness ==
    /\ pc = "done"
    /\ Len(called) = NumJobs
    /\ Len(failed) >= 1
    /\ successes >= 2

HasRequiredFields(res) == RequiredFields \subseteq res.fields

\* C12: a response without all required fields is a failed attempt: the job
\* stays uncommitted and is retried if and only if attempts remain; every
\* result in memory, in the progress file and in the output file holds all
\* required fields.
C12_MissingFieldsRejected ==
    /\ \A i \in DOMAIN adaptations : HasRequiredFields(adaptations[i])
    /\ \A i \in DOMAIN progressFile.adaptations :
          HasRequiredFields(progressFile.adaptations[i])
    /\ \A i \in DOMAIN outputFile.adaptations :
          HasRequiredFields(outputFile.adaptations[i])
    /\ (lastOutcome = "missing_fields" =>
          /\ pc \in {"attempt", "job_failed"}
          /\ CurKey \notin completed
          /\ CurKey \notin PersistedKeys
          /\ (pc = "attempt" <=> attempt < MAX_RETRIES))

\* A job about to be retried after a response without all required fields,
\* in a batch that has committed results.
C12_Witness ==
    /\ pc = "attempt"
    /\ lastOutcome = "missing_fields"
    /\ attempt = MAX_RETRIES - 1
    /\ Len(progressFile.adaptations) >= 1

\* C13: an exception raised while the progress file or the output file is
\* written ends the run at once: the step leaves the save for the aborted
\* state, not for the failed-job path, and from there nothing happens (no
\* job, no call, no write) until process_batch is started again.
C13_PersistenceFailureFatal ==
    /\ [][(pc \in SavePcs /\ pc' \notin SavePcs \cup {"committed", "killed"}) =>
            pc' = "aborted"]_vars
    /\ [][(pc = "aborted" /\ run' = run) =>
            /\ pc' = "aborted"
            /\ attempt' = attempt
            /\ called' = called
            /\ files' = files]_vars

\* The first run, ended by an exception while the output file was written,
\* with jobs left.
C13_Witness ==
    /\ pc = "aborted"
    /\ run = 1
    /\ progressFile.state = "ok"
    /\ outputFile.state = "partial"
    /\ Len(progressFile.adaptations) < NumJobs

\* The results of the first b batch outputs, in batch order.
RECURSIVE ConcatOutputs(_, _)
ConcatOutputs(outs, b) ==
    IF b = 0 THEN <<>> ELSE ConcatOutputs(outs, b - 1) \o outs[b].adaptations

\* What the merge is to have done with the outputs: returned, one line per
\* batch saying whether its output was found and how many results it gave,
\* and the final file holding the results of the outputs in batch order.
MergedInOrder ==
    /\ mergePc = "done"
    /\ Len(mergeReport) = NumBatches
    /\ \A b \in DOMAIN mergeReport :
          /\ mergeReport[b].batch = b
          /\ mergeReport[b].found <=> batchOutputs[b].state # "absent"
          /\ mergeReport[b].loaded = Len(batchOutputs[b].adaptations)
    /\ (\E b \in Batches : batchOutputs[b].state # "absent") =>
          /\ mergedFile.state = "ok"
          /\ mergedFile.adaptations = ConcatOutputs(batchOutputs, NumBatches)
          /\ mergeLog.total = Len(mergedFile.adaptations)

\* C14: once merge_all_batches has run, it has returned, every batch has its
\* line (found or not found), and the final file is the concatenation of the
\* existing batch outputs in the order 1, 2, 3, whatever outputs exist.
C14_MergeConcatenates == mergePc # "idle" => MergedInOrder

\* The same for outputs that are complete files: the merge fails on none of
\* them, so the only merges that do not concatenate are those that meet an
\* output left half-written.
MergeOfCompleteOutputs ==
    (mergePc # "idle" /\ \A b \in Batches : batchOutputs[b].state # "partial")
        => MergedInOrder

MergeOfCompleteOutputsWitness ==
    /\ mergePc = "done"
    /\ batchOutputs[1].state = "ok" /\ Len(batchOutputs[1].adaptations) = MaxBatchLen
    /\ batchOutputs[2].state = "absent"
    /\ batchOutputs[3].state = "ok"
    /\ Len(mergedFile.adaptations) = MaxBatchLen + 1

\* The keys a run called and did not complete, in the order it called them.
Exhausted == SelectSeq(called, LAMBDA k : k \notin completed)

\* C15 (as stated): every run that has terminated normally has written the
\* log of that run, with the failed list of that run.
C15_LogEveryNormalRun ==
    pc = "done" =>
        /\ logFile.state = "ok"
        /\ logFile.run = run
        /\ logFile.failed = Exhausted

\* C15 (amended): a run that terminates normally after finding a job
\* remaining writes the log exactly once, in the step that follows the last
\* job, and the log's failed list is exactly the keys exhausted in that run;
\* a run that finds the batch complete returns without touching the log.
C15_LogOncePerWorkingRun ==
    /\ [](pc = "done" =>
            IF Remaining(StartKeys) = 0
            THEN logFile.run < run
            ELSE /\ logFile.state = "ok"
                 /\ logFile.run = run
                 /\ logFile.failed = Exhausted
                 /\ Range(logFile.failed) = AllKeys \ completed
                 /\ logFile.total = Cardinality(completed))
    /\ [](pc \in Running => logFile.run < run)
    /\ [][logFile' # logFile =>
            /\ pc = "loop" /\ jobIdx > NumJobs /\ pc' = "done"
            /\ logFile.run < run /\ logFile'.run = run]_vars

\* A second run logs its own failure over the log of the first run, which
\* had failed another key; a third run finds the batch complete.
C15_Witness ==
    /\ pc = "done"
    /\ run = 2
    /\ logFile.run = 2
    /\ Len(logFile.failed) = 1
    /\ Len(startProgress.completed) = NumJobs - 2
    /\ Cardinality(completed) = NumJobs - 1

\* The run that returns at once: the log is still the one of an earlier run.
C15_EarlyReturnWitness ==
    /\ pc = "done"
    /\ Remaining(StartKeys) = 0
    /\ logFile.state = "ok"
    /\ logFile.run < run

\* C16 (as stated): for a text that does not begin with a fence, every
\* fenced block around it gives the text extract_json gives for it alone.
C16_FenceTransparent ==
    (extracted.applied /\ ~StartsWith(payload, Fence))
        => extracted.wrapped = {extracted.plain}

\* C16 (amended): for a text that, once the whitespace around it is
\* stripped, does not begin with a fence, every fenced block around it gives
\* the text extract_json gives for it alone, which is the stripped text.
C16_FenceTransparentStripped ==
    (extracted.applied /\ ~StartsWith(Strip(payload), Fence))
        => /\ extracted.wrapped = {extracted.plain}
           /\ extracted.plain = Strip(payload)

\* A text with whitespace in front and a fence inside it.
C16_Witness ==
    /\ extracted.applied
    /\ Len(payload) = MaxPayloadLen
    /\ payload[1] = " "
    /\ Contains(payload, Fence)
    /\ ~StartsWith(Strip(payload), Fence)
    /\ extracted.plain # <<>>
    /\ extracted.wrapped = {extracted.plain}

\* The texts the statement is wrong for: whitespace, then a fence.
C16_LeadingWhitespaceWitness ==
    /\ extracted.applied
    /\ ~StartsWith(payload, Fence)
    /\ StartsWith(Strip(payload), Fence)
    /\ extracted.plain \notin extracted.wrapped

\* The line of the batch says completed/total of the progress file, and
\* COMPLETE exactly when the two are equal.
ReportsProgressFile ==
    /\ statusReport.kind \in {"COMPLETE", "count"}
    /\ statusReport.completed = Len(LoadProgress(progressFile).completed)
    /\ statusReport.total = NumItems * NumVariants
    /\ statusReport.kind = "COMPLETE" <=> statusReport.completed = statusReport.total

\* C17: whenever the status operation has run, it has printed the line of
\* the batch, computed from the progress file as it is.
C17_StatusFromProgressFile == statusReport # NoReport => ReportsProgressFile

\* The same when the progress file is absent or completely written, and the
\* frame: the step that prints changes no file, issues no call and leaves
\* every other variable as it was.
StatusOfReadableFile ==
    /\ []((statusReport # NoReport /\ progressFile.state # "partial")
             => ReportsProgressFile)
    /\ [][statusReport' \notin {statusReport, NoReport}
             => /\ pc \in Stopped
                /\ UNCHANGED <<batchVars, mergeVars, fenceVars>>]_vars

StatusCompleteWitness ==
    /\ statusReport.kind = "COMPLETE"
    /\ Len(progressFile.completed) = NumJobs
    /\ run >= 2

StatusCountWitness ==
    /\ statusReport.kind = "count"
    /\ statusReport.completed = NumJobs - 1
    /\ pc = "killed"

FixedWaits == {WAIT_UNAVAILABLE, WAIT_HTTP_ERROR, WAIT_JSON_ERROR, WAIT_OTHER_ERROR}

\* C18: within a job, the backoff state is INITIAL_RETRY_DELAY doubled once
\* per rate-limited failure of that job and nothing else, so the wait of the
\* k-th rate-limited failure is min(INITIAL_RETRY_DELAY * 2^(k-1),
\* MAX_RETRY_DELAY) however many other failures came in between; the other
\* failures wait one of the fixed waits (or nothing) and leave the backoff
\* state alone; each job starts from INITIAL_RETRY_DELAY again.
C18_BackoffCountsRateLimitsOnly ==
    /\ [](pc \in {"attempt", "job_failed"} =>
            /\ rateLimited \in 0 .. attempt
            /\ retry_delay = INITIAL_RETRY_DELAY * Pow2(rateLimited)
            /\ (lastOutcome = "rate_limited" =>
                   /\ rateLimited >= 1
                   /\ lastWait = Min(INITIAL_RETRY_DELAY * Pow2(rateLimited - 1),
                                     MAX_RETRY_DELAY))
            /\ (lastOutcome \notin {"none", "rate_limited"} =>
                   lastWait \in FixedWaits \cup {0}))
    /\ [][(attempt' = attempt + 1 /\ lastOutcome' \notin {"ok", "rate_limited"})
             => retry_delay' = retry_delay]_vars
    /\ [][(pc # "attempt" /\ pc' = "attempt")
             => (attempt' = 0 /\ retry_delay' = INITIAL_RETRY_DELAY)]_vars

\* The second job of a run, after a first job that failed: its fifth call is
\* its second rate-limited failure, the three others failed otherwise, and
\* the wait is twice INITIAL_RETRY_DELAY.
C18_Witness ==
    /\ pc = "job_failed"
    /\ jobIdx = 2
    /\ Len(failed) = 2
    /\ attempt = MAX_RETRIES
    /\ rateLimited = 2
    /\ lastOutcome = "rate_limited"
    /\ lastWait = 2 * INITIAL_RETRY_DELAY

\* C19: whenever a call is about to be issued and the run has issued one
\* before, the waits taken since that call add up to DELAY_BETWEEN_REQUESTS
\* at least, be the call a retry or the first call of a later job.
C19_MinimumGapBetweenCalls ==
    /\ []((pc = "attempt" /\ called # <<>>) => sinceCall >= DELAY_BETWEEN_REQUESTS)
    /\ [][(attempt' = attempt + 1 /\ called # <<>>)
             => sinceCall >= DELAY_BETWEEN_REQUESTS]_vars

\* The smallest gap: a job's last call failed in a clause that returns
\* without sleeping, and the next job's call comes after the delay of the
\* loop alone.
C19_Witness ==
    /\ pc = "attempt"
    /\ attempt = 0
    /\ jobIdx = 2
    /\ failed = <<JobSeq[1]>>
    /\ sinceCall = DELAY_BETWEEN_REQUESTS

\* A retry after the shortest of the retry waits.
C19_RetryWitness ==
    /\ pc = "attempt"
    /\ attempt = 1
    /\ lastOutcome = "json_error"
    /\ sinceCall = WAIT_JSON_ERROR

\* C20: a key recorded as failed is called no more in that run, and it is
\* neither in the completed set nor in the progress file, so a later run
\* does not skip it: at the end of the loops of a run, every key the log of
\* the run before lists as failed has been called, and every key an older
\* log lists has been called unless a run in between committed it.
C20_FailedRetriedNextRunOnly ==
    /\ [](pc \in Running \cup {"done"} =>
            /\ \A i, j \in DOMAIN failed : failed[i] = failed[j] => i = j
            /\ Range(failed) \cap completed = {}
            /\ Range(failed) \cap PersistedKeys = {}
            /\ Range(failed) \subseteq Range(called))
    /\ [][attempt' = attempt + 1 => CurKey \notin Range(failed)]_vars
    /\ []((pc = "loop" /\ jobIdx > NumJobs /\ logFile.state = "ok") =>
            /\ Range(logFile.failed) \subseteq Range(called) \cup StartKeys
            /\ (logFile.run = run - 1 =>
                   /\ Range(logFile.failed) \cap StartKeys = {}
                   /\ Range(logFile.failed) \subseteq Range(called)))

\* The loops of a second run are over: the key the first run logged as
\* failed was called again and this time committed, after another key of
\* the second run had failed.
C20_Witness ==
    /\ pc = "loop"
    /\ jobIdx > NumJobs
    /\ run = 2
    /\ logFile.run = 1
    /\ Len(logFile.failed) >= 1
    /\ logFile.failed[Len(logFile.failed)] \in completed \cap Range(called)
    /\ Len(failed) = 1
    /\ EnumeratedBefore(failed[1], logFile.failed[Len(logFile.failed)])

\* The results a run has added to the list it loaded.
RunResults == SubSeq(adaptations, Len(startProgress.adaptations) + 1, Len(adaptations))

\* C21: a success appends its result at the end of the list and changes
\* nothing before it; the results a run has added are those of the jobs it
\* called and completed, in the order it called them, which is enumeration
\* order; the progress file holds a prefix of the list.
C21_CommitsInOrder ==
    /\ [](pc \in Running \cup {"done"} =>
            /\ IsPrefix(startProgress.adaptations, adaptations)
            /\ Len(RunResults) = successes
            /\ [i \in DOMAIN RunResults |-> RunResults[i].job]
                  = SelectSeq(called, LAMBDA k : k \in completed)
            /\ \A i, j \in DOMAIN RunResults :
                  i < j => EnumeratedBefore(RunResults[i].job, RunResults[j].job)
            /\ (progressFile.state = "ok" =>
                   IsPrefix(progressFile.adaptations, adaptations)))
    /\ [][(pc \in Running /\ pc' \in Running /\ adaptations' # adaptations) =>
             /\ pc = "attempt"
             /\ Len(adaptations') = Len(adaptations) + 1
             /\ IsPrefix(adaptations, adaptations')
             /\ adaptations'[Len(adaptations')].job = CurKey]_vars

\* A run in which the second job failed between two that succeeded.
C21_Witness ==
    /\ pc = "done"
    /\ run = 1
    /\ failed = <<JobSeq[2]>>
    /\ Len(adaptations) = NumJobs - 1
    /\ adaptations[1].job = JobSeq[1]
    /\ adaptations[2].job = JobSeq[3]
    /\ progressFile.adaptations = adaptations

\* C22 (as stated): a call that failed on a body that is not JSON, or on a
\* JSON body without the required fields, and that is to be retried, has
\* waited what a generic failure waits.
C22_MalformedWaitsAsGeneric ==
    (pc = "attempt" /\ lastOutcome \in {"json_error", "missing_fields"})
        => lastWait = WAIT_OTHER_ERROR

\* C22 (amended): a body that is not JSON is retried after WAIT_JSON_ERROR,
\* which is shorter than the wait of a generic failure; a JSON body without
\* the required fields is retried after WAIT_OTHER_ERROR, the wait of a
\* generic failure; neither changes the backoff state.
C22_MalformedWaits ==
    /\ [](/\ WAIT_JSON_ERROR < WAIT_OTHER_ERROR
          /\ (pc = "attempt" /\ lastOutcome = "json_error"
                 => lastWait = WAIT_JSON_ERROR)
          /\ (pc = "attempt" /\ lastOutcome \in {"missing_fields", "error"}
                 => lastWait = WAIT_OTHER_ERROR))
    /\ [][(attempt' = attempt + 1
            /\ lastOutcome' \in {"json_error", "missing_fields", "error"})
             => retry_delay' = retry_delay]_vars

\* The second job of a run: its second call returned a JSON body without
\* the required fields and is to be retried.
C22_Witness ==
    /\ pc = "attempt"
    /\ jobIdx = 2
    /\ attempt = 2
    /\ lastOutcome = "missing_fields"
    /\ sinceCall = WAIT_OTHER_ERROR
    /\ rateLimited = 0

\* A body that is not JSON, to be retried for the last time.
C22_JsonErrorWitness ==
    /\ pc = "attempt"
    /\ attempt = MAX_RETRIES - 1
    /\ lastOutcome = "json_error"
    /\ lastWait = WAIT_JSON_ERROR

\* The fields the provenance of a result is in: the item, the variant, the
\* service and the time.
ProvenanceFields == {"original_vignette_id", "variant_type", "model", "timestamp"}

\* C23: every result returned has every provenance field, set by the runner.
C23_RunnerSetsProvenance ==
    result.status = "ok" =>
        \A f \in ProvenanceFields :
            f \in DOMAIN result.value /\ result.value[f] = "runner"

\* What the runner does set: category, model and timestamp, whatever the
\* service returned for them; every other field of the result is the
\* service's, or missing if the service left it out.
RunnerSetsMetadataOnly ==
    result.status = "ok" =>
        /\ DOMAIN result.value = DOMAIN response \cup Metadata
        /\ \A f \in Metadata : result.value[f] = "runner"
        /\ \A f \in DOMAIN response \ Metadata : result.value[f] = response[f]

\* A result without the item id, its variant as the service chose to write
\* it, and the service's own "model" overwritten.
RunnerSetsMetadataOnlyWitness ==
    /\ result.status = "ok"
    /\ "original_vignette_id" \notin DOMAIN result.value
    /\ "variant_type" \in DOMAIN response
    /\ result.value["variant_type"] = "other"
    /\ "model" \in DOMAIN response
    /\ response["model"] = "other"
    /\ result.value["model"] = "runner"

MergedBatches == {b \in Batches : batchOutputs[b].state = "ok"}

\* C24: a merge log that was written has a count for each batch merged,
\* equal to the number of results of that batch, the total and the path of
\* the final file, and lists exactly the batches that were merged.
C24_ManifestPerBatch ==
    mergeLog.state = "ok" =>
        /\ mergeLog.total = Len(mergedFile.adaptations)
        /\ mergeLog.output_file = FinalOutputName
        /\ Range(mergeLog.batches) = MergedBatches
        /\ "counts" \in DOMAIN mergeLog
        /\ \A b \in MergedBatches :
              mergeLog.counts[b] = Len(batchOutputs[b].adaptations)

\* What the merge log does hold: the total, the path, and every batch of
\* BATCH_CONFIG, merged or not, and nothing else.
ManifestTotalAndAllBatches ==
    mergeLog.state = "ok" =>
        /\ mergeLog.total = Len(mergedFile.adaptations)
        /\ mergeLog.output_file = FinalOutputName
        /\ mergeLog.batches = <<1, 2, 3>>
        /\ DOMAIN mergeLog = {"state", "total", "batches", "output_file"}

\* A merge of the first batch alone, logged with all three batches.
ManifestTotalAndAllBatchesWitness ==
    /\ mergeLog.state = "ok"
    /\ MergedBatches = {1}
    /\ mergeLog.total = MaxBatchLen
    /\ Len(mergeLog.batches) = NumBatches

\* C25 (as stated): translate_vignette calls the service at most
\* MAX_RETRIES times.
C25_AtMostMaxRetriesCalls == trCalls <= TRANSLATE_MAX_RETRIES

\* C25 (amended): translate_vignette ends whatever the service does, after
\* at most MAX_RETRIES + 1 calls: the first call and at most MAX_RETRIES
\* retries, each after RETRY_DELAY; it returns None exactly when all
\* MAX_RETRIES + 1 calls failed, and the recursion is never deeper than
\* MAX_RETRIES.
C25_BoundedRecursion ==
    /\ [](/\ trCalls <= TRANSLATE_MAX_RETRIES + 1
          /\ retry_count <= TRANSLATE_MAX_RETRIES
          /\ trCalls = Len(trOutcomes)
          /\ trWaited = retry_count * RETRY_DELAY
          /\ (trPc = "call" => trCalls = retry_count)
          /\ (trPc = "returned" =>
                 /\ trCalls = retry_count + 1
                 /\ trOutcomes[trCalls] = "ok")
          /\ (trPc = "failed" =>
                 /\ trCalls = TRANSLATE_MAX_RETRIES + 1
                 /\ "ok" \notin Range(trOutcomes)))
    /\ <>(trPc \in {"returned", "failed"})

\* Four calls, failed in four different ways, and None returned.
C25_Witness ==
    /\ trPc = "failed"
    /\ trCalls = TRANSLATE_MAX_RETRIES + 1
    /\ Cardinality(Range(trOutcomes)) = TRANSLATE_MAX_RETRIES + 1
    /\ trWaited = TRANSLATE_MAX_RETRIES * RETRY_DELAY

\* C26: when a run has returned normally, the batch output file holds
\* exactly the result list of the progress file, whatever happened to the
\* runs before it.
C26_OutputEqualsProgressAfterRun ==
    (pc = "done" /\ progressFile.state = "ok") =>
        /\ outputFile.state = "ok"
        /\ outputFile.adaptations = progressFile.adaptations

\* Where it fails: a run that returned normally without a save of its own
\* leaves the output file as the terminated run left it, one result short
\* or half-written.
OutputStaleAfterRun ==
    /\ pc = "done"
    /\ successes = 0
    /\ progressFile.state = "ok"
    /\ outputFile.state = "ok"
    /\ Len(outputFile.adaptations) = Len(progressFile.adaptations) - 1

OutputTornAfterRun ==
    /\ pc = "done"
    /\ Remaining(StartKeys) = 0
    /\ progressFile.state = "ok"
    /\ outputFile.state = "partial"

\* A run that returned normally and saved at least once leaves the two
\* files equal.
OutputStaleOnlyWithoutSave ==
    (pc = "done" /\ progressFile.state = "ok" /\ successes > 0) =>
        /\ outputFile.state = "ok"
        /\ outputFile.adaptations = progressFile.adaptations

\* C27: when the last permitted call of a job has failed, no retry wait was
\* taken after it, whatever the failure was.
C27_NoWaitAfterLastCall == pc = "job_failed" => lastWait = 0

\* The classes it holds for and those it fails for: after the last call an
\* HTTP error other than 429 and 503, a JSON error and any other error
\* return at once; a 429 still sleeps the backoff and a 503 its fixed wait.
WaitAfterLastCallByClass ==
    pc = "job_failed" =>
        /\ attempt = MAX_RETRIES
        /\ (lastOutcome \in {"http_error", "json_error", "missing_fields", "error"}
               => lastWait = 0)
        /\ (lastOutcome = "rate_limited" =>
               lastWait = Min(INITIAL_RETRY_DELAY * Pow2(rateLimited - 1),
                              MAX_RETRY_DELAY))
        /\ (lastOutcome = "unavailable" => lastWait = WAIT_UNAVAILABLE)

\* The longest wasted wait: the fifth call of a job is its fifth 429.
WastedBackoffWitness ==
    /\ pc = "job_failed"
    /\ lastOutcome = "rate_limited"
    /\ rateLimited = MAX_RETRIES
    /\ sinceCall = MAX_RETRY_DELAY

WastedUnavailableWitness ==
    /\ pc = "job_failed"
    /\ lastOutcome = "unavailable"
    /\ sinceCall = WAIT_UNAVAILABLE

\* C28: from the first call of a job that fails to the sleep after it, no
\* step writes the progress file or the output file or changes the completed
\* set or the result list: the files are written only in the save that
\* follows a successful call; and the failed job has no key and no result
\* in memory or in the files.
C28_FailedJobWritesNothing ==
    /\ [][(pc \in Running /\ pc' \in Running /\ lastOutcome' # "ok") =>
             UNCHANGED <<progressFile, outputFile, completed, adaptations>>]_vars
    /\ [][(progressFile' # progressFile \/ outputFile' # outputFile) =>
             (pc \in SavePcs /\ lastOutcome = "ok")]_vars
    /\ [](pc = "job_failed" =>
            /\ lastOutcome \notin {"ok", "none"}
            /\ CurKey \notin completed \cup PersistedKeys
            /\ \A i \in DOMAIN adaptations : adaptations[i].job # CurKey
            /\ (outputFile.state = "ok" =>
                   \A i \in DOMAIN outputFile.adaptations :
                       outputFile.adaptations[i].job # CurKey))

\* The commit after a failed job: the files went from the first job's commit
\* to the third job's with nothing in between.
C28_Witness ==
    /\ pc = "committed"
    /\ run = 1
    /\ jobIdx = 3
    /\ failed = <<JobSeq[2]>>
    /\ lastPersisted.state = "ok"
    /\ Len(lastPersisted.adaptations) = 1
    /\ Len(progressFile.adaptations) = 2
    /\ progressFile.adaptations[2].job = JobSeq[3]

\* C29: when a run has written the log, the failed list has no key twice,
\* shares no key with the completed set and makes up the batch's key set
\* with it; the log's total is the number of results of all runs so far, and
\* total plus failed is items times variants.
C29_LogPartitionsKeys ==
    (pc = "done" /\ logFile.state = "ok" /\ logFile.run = run) =>
        /\ Cardinality(Range(logFile.failed)) = Len(logFile.failed)
        /\ Range(logFile.failed) \cap completed = {}
        /\ Range(logFile.failed) \cup completed = (1 .. NumItems) \X (1 .. NumVariants)
        /\ logFile.total = Len(LoadProgress(progressFile).adaptations)
        /\ logFile.total = Len(startProgress.adaptations) + successes
        /\ logFile.total + Len(logFile.failed) = NumItems * NumVariants

\* A resumed run that logged a success and a failure on top of the results
\* it loaded.
C29_Witness ==
    /\ pc = "done"
    /\ logFile.run = run
    /\ run >= 2
    /\ Len(startProgress.adaptations) >= 1
    /\ successes >= 1
    /\ Len(logFile.failed) >= 1
    /\ logFile.total = NumJobs - 1

\* The jobs of a result list, and the places where a list leaves enumeration
\* order: a result followed by the result of an earlier-enumerated job.
JobsOf(ads) == [i \in DOMAIN ads |-> ads[i].job]

Descents(ads) ==
    {i \in 1 .. Len(ads) - 1 : EnumeratedBefore(ads[i + 1].job, ads[i].job)}

\* C30 (as stated): once every job of the batch is in the result list, the
\* list and the output file are in enumeration order.
C30_FinalListInEnumerationOrder ==
    (pc = "done" /\ Len(adaptations) = NumJobs) =>
        /\ JobsOf(adaptations) = JobSeq
        /\ (outputFile.state = "ok" => Descents(outputFile.adaptations) = {})

\* C30 (amended): the result list is the results of the runs one after the
\* other, each run's in enumeration order: it leaves enumeration order only
\* where a run's results follow those of the runs before, so in fewer places
\* than there were runs, and nowhere if no call ever failed; once every job
\* is in the list each key is there once; the output file of a run that
\* saved is the list.
C30_RunsAppendInOrder ==
    pc \in Running \cup {"done"} =>
        /\ Cardinality(Descents(adaptations)) < run
        /\ Descents(adaptations) \subseteq
              Descents(startProgress.adaptations) \cup {Len(startProgress.adaptations)}
        /\ (~everFailed => Descents(adaptations) = {})
        /\ (Len(adaptations) = NumJobs =>
              /\ Range(JobsOf(adaptations)) = AllKeys
              /\ Cardinality(Range(JobsOf(adaptations))) = NumJobs)
        /\ ((pc = "done" /\ successes > 0) => outputFile.adaptations = adaptations)

\* The second job failed in the first run and succeeded in the second: its
\* result is the last of the list and of the output file.
C30_Witness ==
    /\ pc = "done"
    /\ run = 2
    /\ JobsOf(adaptations) = <<JobSeq[1], JobSeq[3], JobSeq[4], JobSeq[2]>>
    /\ outputFile.adaptations = adaptations
    /\ Descents(adaptations) = {3}
====
